---- MODULE Spec2Model ----
(***************************************************************************)
(* A model of the controls engine of src/src/controls_engine.py: the       *)
(* condition matcher (build_mask_for_conditions), the rule evaluator, the  *)
(* decision resolver and the monitoring aggregator (evaluate_controls),    *)
(* and the orchestrator run() that reads the inputs and writes the tables. *)
(*                                                                         *)
(* Strings are TLA+ strings (TLC evaluates Len, SubSeq and \o on them), so *)
(* the suffix tests, slices and replacements of the condition keys are     *)
(* computed character by character, as Python computes them.              *)
(*                                                                         *)
(* A DataFrame is a record [columns, rows]: the set of its column names    *)
(* and the sequence of its rows, each row a record over exactly those      *)
(* columns.  A cell is a tagged value (Num, Str, Bool, NaN); NA is the     *)
(* pd.NA that _safe_series puts in place of a column the frame lacks.      *)
(*                                                                         *)
(* Transaction ids are unique within a batch: the producer                 *)
(* (generate_synthetic_data.py, make_id(prefix, i)) numbers them.  Control *)
(* ids are whatever the YAML holds: load_controls does not reject          *)
(* duplicates.                                                             *)
(*                                                                         *)
(* The transactions file is text: to_csv writes it and pd.read_csv reads   *)
(* it a buffer at a time, without a lock, so that run() may read a file    *)
(* the producer is rewriting (old bytes followed by new ones, a cut row,   *)
(* a line the parser rejects).                                             *)
(***************************************************************************)
EXTENDS Integers, Sequences, FiniteSets, TLC

VARIABLES
    tx,           \* the transaction batch (a DataFrame)
    controls,     \* the loaded control list
    conditions,   \* the condition mapping handed to build_mask_for_conditions
    mask,         \* the mask build_mask_for_conditions returned
    pc,           \* where the program is
    hits_df,      \* the hits table of the last run
    decisions,    \* the decisions table of the last run
    metrics_df,   \* the metrics table of the last run
    prev,         \* the three tables of the run before the last
    table_columns,\* the column names of the three tables of the last run
    fs,           \* the files run() finds: which inputs exist, which outputs cannot be written
    written,      \* the output files run() has written
    error,        \* the message of the exception that ended the program, "" if none
    gen,          \* main() of generate_synthetic_data.py: where it is, and the text it writes
    tx_file,      \* the bytes of data/combined_transactions.csv
    rd            \* the bytes pd.read_csv has read of it so far

vars == <<tx, controls, conditions, mask, pc, hits_df, decisions, metrics_df, prev,
          table_columns, fs, written, error, gen, tx_file, rd>>

----------------------------------------------------------------------------
(* Bounds of the model *)

MaxTx == 3
MaxControls == 2
MaxConds == 2

\* The bytes of one read of the tokenizer of pd.read_csv, and of one write of
\* the buffer of to_csv, scaled to the files of the model: a read holds the
\* header and the first row, a write less than the header.
ReadChunk == 192
WriteChunk == 64

----------------------------------------------------------------------------
(* Python strings *)

\* The characters the model's strings use, in code-point order.
AsciiChars == " ,.0123456789<>ABCDEFGHIJKLMNOPQRSTUVWXYZ_abcdefghijklmnopqrstuvwxyz"

CharAt(s, i) == SubSeq(s, i, i)

\* The position of each character in AsciiChars: its rank by code point.
OrdTable ==
    [c \in {CharAt(AsciiChars, i) : i \in 1..Len(AsciiChars)} |->
        CHOOSE i \in 1..Len(AsciiChars) : CharAt(AsciiChars, i) = c]

Ord(c) == OrdTable[c]

\* str.__lt__: lexicographic by code point, a proper prefix first.
RECURSIVE StrLess(_, _)
StrLess(a, b) ==
    IF Len(b) = 0 THEN FALSE
    ELSE IF Len(a) = 0 THEN TRUE
    ELSE IF CharAt(a, 1) = CharAt(b, 1)
         THEN StrLess(SubSeq(a, 2, Len(a)), SubSeq(b, 2, Len(b)))
         ELSE Ord(CharAt(a, 1)) < Ord(CharAt(b, 1))

\* str.endswith
EndsWith(s, suf) ==
    /\ Len(s) >= Len(suf)
    /\ SubSeq(s, Len(s) - Len(suf) + 1, Len(s)) = suf

\* s[:-len(suf)]
StripSuffix(s, suf) == SubSeq(s, 1, Len(s) - Len(suf))

\* s.replace(old, ""): every non-overlapping occurrence, left to right.
RECURSIVE Replace(_, _)
Replace(s, old) ==
    IF Len(s) < Len(old) THEN s
    ELSE IF SubSeq(s, 1, Len(old)) = old
         THEN Replace(SubSeq(s, Len(old) + 1, Len(s)), old)
         ELSE CharAt(s, 1) \o Replace(SubSeq(s, 2, Len(s)), old)

LowerTable ==
    [c \in DOMAIN OrdTable |->
        IF OrdTable[c] >= OrdTable["A"] /\ OrdTable[c] <= OrdTable["Z"]
        THEN CharAt(AsciiChars, OrdTable[c] - OrdTable["A"] + OrdTable["a"])
        ELSE c]

LowerChar(c) == LowerTable[c]

\* str.lower
RECURSIVE Lower(_)
Lower(s) ==
    IF Len(s) = 0 THEN s
    ELSE LowerChar(CharAt(s, 1)) \o Lower(SubSeq(s, 2, Len(s)))

\* str.strip (the model's only whitespace is the space)
RECURSIVE Strip(_)
Strip(s) ==
    IF Len(s) = 0 THEN s
    ELSE IF CharAt(s, 1) = " " THEN Strip(SubSeq(s, 2, Len(s)))
    ELSE IF CharAt(s, Len(s)) = " " THEN Strip(SubSeq(s, 1, Len(s) - 1))
    ELSE s

\* sep.join(seq)
RECURSIVE Join(_, _)
Join(sep, seq) ==
    IF Len(seq) = 0 THEN ""
    ELSE IF Len(seq) = 1 THEN seq[1]
    ELSE seq[1] \o sep \o Join(sep, Tail(seq))

\* sorted(set_of_strings)
RECURSIVE Sorted(_)
Sorted(S) ==
    IF S = {} THEN <<>>
    ELSE LET m == CHOOSE x \in S : \A y \in S \ {x} : StrLess(x, y)
         IN  <<m>> \o Sorted(S \ {m})

----------------------------------------------------------------------------
(* Cells and expected values *)

Num(n)  == [t |-> "num",  n |-> n, s |-> "", b |-> FALSE]
Str(s)  == [t |-> "str",  n |-> 0, s |-> s,  b |-> FALSE]
Bool(b) == [t |-> "bool", n |-> 0, s |-> "", b |-> b]
NaN     == [t |-> "nan",  n |-> 0, s |-> "", b |-> FALSE]
NA      == [t |-> "na",   n |-> 0, s |-> "", b |-> FALSE]
\* A YAML list (the expected value of an `_in` key): a set of scalars.
List(S) == [t |-> "list", n |-> 0, s |-> "", b |-> FALSE, items |-> S]

IsNull(c) == c.t \in {"nan", "na"}

\* The Python object a cell holds, as a table carries it: a str, a number,
\* a bool, or the null.
cell_value(c) ==
    CASE c.t = "str"  -> c.s
      [] c.t = "num"  -> c.n
      [] c.t = "bool" -> c.b
      [] OTHER        -> NaN

\* Python's == between two scalars: True == 1 and False == 0.
AsInt(c) == IF c.t = "bool" THEN (IF c.b THEN 1 ELSE 0) ELSE c.n
PyEq(a, b) ==
    IF a.t = "str" /\ b.t = "str" THEN a.s = b.s
    ELSE IF a.t \in {"num", "bool"} /\ b.t \in {"num", "bool"} THEN AsInt(a) = AsInt(b)
    ELSE FALSE

\* str(x), as Series.astype(str) renders a cell of an int64 or object column
\* (pandas 2: a null becomes the text "nan", pd.NA the text "<NA>").
PyStr(c) ==
    CASE c.t = "str"  -> c.s
      [] c.t = "num"  -> ToString(c.n)
      [] c.t = "bool" -> (IF c.b THEN "True" ELSE "False")
      [] c.t = "nan"  -> "nan"
      [] c.t = "na"   -> "<NA>"

----------------------------------------------------------------------------
(* Condition matcher: build_mask_for_conditions *)

\* _safe_series(df, col), at one row: the cell, or pd.NA when the frame has
\* no such column.
safe_series(df, row, col) == IF col \in df.columns THEN row[col] ELSE NA

IsDigit(c) == Ord(c) >= Ord("0") /\ Ord(c) <= Ord("9")

IsNumeral(s) == Len(s) > 0 /\ \A i \in 1..Len(s) : IsDigit(CharAt(s, i))

RECURSIVE NumeralValue(_)
NumeralValue(s) ==
    IF Len(s) = 0 THEN 0
    ELSE 10 * NumeralValue(SubSeq(s, 1, Len(s) - 1))
         + (Ord(CharAt(s, Len(s))) - Ord("0"))

\* pd.to_numeric(series, errors="coerce"), at one cell: a number, or NaN for
\* a null and for text that is no number (the model's numerals are
\* unsigned integers).
to_numeric(c) ==
    CASE c.t = "num"  -> c
      [] c.t = "bool" -> Num(AsInt(c))
      [] c.t = "str"  -> (IF IsNumeral(c.s) THEN Num(NumeralValue(c.s)) ELSE NaN)
      [] OTHER        -> NaN

\* float(expected), for the expected values the model passes to a comparison.
float(e) ==
    CASE e.t = "num"  -> e.n
      [] e.t = "bool" -> AsInt(e)
      [] e.t = "str"  -> NumeralValue(e.s)

\* series <op> float(expected), at one cell: a comparison with NaN is False.
Compare(op, c, e) ==
    IF c.t # "num" THEN FALSE
    ELSE CASE op = "_gt"  -> c.n >  float(e)
           [] op = "_gte" -> c.n >= float(e)
           [] op = "_lt"  -> c.n <  float(e)
           [] op = "_lte" -> c.n <= float(e)

\* day_suffix_ops, in the order of the dict
day_suffix_ops ==
    << <<"_gt_days", "_gt">>, <<"_gte_days", "_gte">>,
       <<"_lt_days", "_lt">>, <<"_lte_days", "_lte">> >>

\* The comparison suffixes of step 3, in the order the loop tries them.
comparison_ops == <<"_gt", "_gte", "_lt", "_lte">>

\* The first entry of day_suffix_ops whose suffix ends the key (0: none).
DaySuffixIndex(key) ==
    IF \E i \in 1..Len(day_suffix_ops) : EndsWith(key, day_suffix_ops[i][1])
    THEN CHOOSE i \in 1..Len(day_suffix_ops) :
            /\ EndsWith(key, day_suffix_ops[i][1])
            /\ \A j \in 1..(i - 1) : ~EndsWith(key, day_suffix_ops[j][1])
    ELSE 0

\* The first comparison suffix that ends the key (0: none, the for's else).
ComparisonIndex(key) ==
    IF \E i \in 1..Len(comparison_ops) : EndsWith(key, comparison_ops[i])
    THEN CHOOSE i \in 1..Len(comparison_ops) :
            /\ EndsWith(key, comparison_ops[i])
            /\ \A j \in 1..(i - 1) : ~EndsWith(key, comparison_ops[j])
    ELSE 0

\* "Normalize field names used in YAML"
normalize_field(field) ==
    IF field = "account_age" THEN "account_age_days"
    ELSE IF field = "wallet_age" THEN "wallet_age_days"
    ELSE field

\* Which branch of the loop body handles the key.
condition_kind(key) ==
    IF EndsWith(key, "_in") THEN "in"
    ELSE IF DaySuffixIndex(key) # 0 THEN "days"
    ELSE IF ComparisonIndex(key) # 0 THEN "compare"
    ELSE "exact"

\* The column the condition reads.
condition_field(key) ==
    LET kind == condition_kind(key)
    IN  CASE kind = "in" -> Replace(key, "_in")
          [] kind = "days" ->
                normalize_field(StripSuffix(key, day_suffix_ops[DaySuffixIndex(key)][1]))
          [] kind = "compare" ->
                normalize_field(Replace(key, comparison_ops[ComparisonIndex(key)]))
          [] OTHER -> key

\* The comparison a `days` or `compare` key makes.
condition_op(key) ==
    IF condition_kind(key) = "days" THEN day_suffix_ops[DaySuffixIndex(key)][2]
    ELSE comparison_ops[ComparisonIndex(key)]

\* series.isin(expected), at one cell (the model's lists hold no null).
isin(c, e) == ~IsNull(c) /\ \E x \in e.items : PyEq(c, x)

\* coerce_bool_series, at one cell: "true"/"false" text becomes a boolean,
\* anything else is kept.
coerce_bool_series(c) ==
    LET text == Lower(Strip(PyStr(c)))
    IN  IF c.t = "bool" THEN c
        ELSE IF text = "true" THEN Bool(TRUE)
        ELSE IF text = "false" THEN Bool(FALSE)
        ELSE c

\* The exact-match branch, at one cell.
exact_match(c, e) ==
    CASE e.t = "bool" -> PyEq(coerce_bool_series(c), e)
      [] e.t = "str"  -> Lower(PyStr(c)) = Lower(e.s)
      [] OTHER        -> PyEq(c, e)

\* What a condition of the given kind and comparison contributes at one
\* cell of the series it reads.
cell_mask(kind, op, c, expected) ==
    CASE kind = "in"    -> isin(c, expected)
      [] kind = "exact" -> exact_match(c, expected)
      [] OTHER -> Compare(op, to_numeric(c), expected)

\* What the loop body works out from the key alone, before it touches the
\* frame: the branch, the column and the comparison ("" where none is made).
parse_key(key) ==
    LET kind == condition_kind(key)
    IN  [kind  |-> kind,
         field |-> condition_field(key),
         op    |-> IF kind \in {"days", "compare"} THEN condition_op(key) ELSE ""]

\* What one condition contributes to the mask at one row.
condition_mask(df, row, key, expected) ==
    LET p == parse_key(key)
    IN  cell_mask(p.kind, p.op, safe_series(df, row, p.field), expected)

\* The keys of the mapping, each parsed once, in the order of the loop.
RECURSIVE parse_keys(_)
parse_keys(conds) ==
    IF conds = <<>> THEN <<>>
    ELSE <<parse_key(Head(conds)[1])>> \o parse_keys(Tail(conds))

\* build_mask_for_conditions(df, conditions): one boolean per row, the AND of
\* the conditions; conds is the mapping as its sequence of <<key, expected>>.
build_mask_for_conditions(df, conds) ==
    LET parsed == parse_keys(conds)
    IN  [i \in 1..Len(df.rows) |->
            \A k \in 1..Len(conds) :
                cell_mask(parsed[k].kind, parsed[k].op,
                          safe_series(df, df.rows[i], parsed[k].field), conds[k][2])]

----------------------------------------------------------------------------
(* Decision logic *)

\* Mutant: REVIEW ranked above BLOCK.
ACTION_PRIORITY_swapped == [ALLOW |-> 0, REVIEW |-> 2, BLOCK |-> 1]

ACTION_PRIORITY == [ALLOW |-> 0, REVIEW |-> 1, BLOCK |-> 2]

\* ACTION_PRIORITY.get(a, 0)
priority(a) == IF a \in DOMAIN ACTION_PRIORITY THEN ACTION_PRIORITY[a] ELSE 0

\* resolve_final_action(list(set(s))): the values the call can return.  max
\* returns the first element of highest priority in the order of the list,
\* and the list is a set of strings in iteration order, which depends on the
\* process's string hash seed: among several actions of the same highest
\* priority, any one can be first.
resolve_final_action(actions) ==
    IF actions = {} THEN {"ALLOW"}
    ELSE {a \in actions : \A b \in actions : priority(b) <= priority(a)}

----------------------------------------------------------------------------
(* Rule evaluator: the loop of evaluate_controls over the controls *)

Range(f) == {f[i] : i \in DOMAIN f}

\* Mutant: the control is evaluated on the whole batch.
rail_df_unfiltered(df, rail) == df

\* tx[tx["rail"] == control.rail]
rail_df(df, rail) ==
    [columns |-> df.columns,
     rows    |-> SelectSeq(df.rows, LAMBDA r : PyEq(r["rail"], Str(rail)))]

\* The hit rows of the rows of frame d from index i on that the mask selects:
\* the dicts the loop appends, tx_id and rail as the cells of the row.
RECURSIVE masked_hits(_, _, _, _)
masked_hits(d, m, control, i) ==
    IF i > Len(d.rows) THEN <<>>
    ELSE (IF m[i]
          THEN << [tx_id       |-> d.rows[i]["tx_id"],
                   rail        |-> d.rows[i]["rail"],
                   control_id  |-> control.control_id,
                   severity    |-> control.severity,
                   action      |-> control.action,
                   description |-> control.description] >>
          ELSE <<>>)
         \o masked_hits(d, m, control, i + 1)

\* One iteration of the loop: the hit rows one control appends.
control_hits(df, control) ==
    LET d == rail_df(df, control.rail)
    IN  IF d.rows = <<>> THEN <<>>
        ELSE masked_hits(d, build_mask_for_conditions(d, control.conditions), control, 1)

\* Mutant: a hit row equal to one a later control appends is dropped.
RECURSIVE hit_rows_deduplicated(_, _)
hit_rows_deduplicated(df, ctrls) ==
    IF ctrls = <<>> THEN <<>>
    ELSE LET rest == hit_rows_deduplicated(df, Tail(ctrls))
         IN  SelectSeq(control_hits(df, Head(ctrls)), LAMBDA h : h \notin Range(rest)) \o rest

\* hit_rows after the loop
RECURSIVE hit_rows(_, _)
hit_rows(df, ctrls) ==
    IF ctrls = <<>> THEN <<>>
    ELSE control_hits(df, Head(ctrls)) \o hit_rows(df, Tail(ctrls))

\* pd.DataFrame(hit_rows): the table of the hit rows.
hits_table(hits) ==
    [i \in DOMAIN hits |->
        [hits[i] EXCEPT !.tx_id = cell_value(hits[i].tx_id), !.rail = cell_value(hits[i].rail)]]

----------------------------------------------------------------------------
(* Decision resolver *)

\* Mutant: the hits are not split by transaction id.
grouped_unsplit(hits, tx_id) == hits

\* hits_df.groupby("tx_id"): the group of one transaction id (a cell).  A
\* null is the key of no group: groupby drops the rows whose key is null.
grouped(hits, tx_id) == SelectSeq(hits, LAMBDA h : ~IsNull(tx_id) /\ h.tx_id = tx_id)

\* Mutant: how="inner", which keeps only the rows that have a group.
merge_inner(df, hits) ==
    SelectSeq([i \in 1..Len(df.rows) |-> i],
              LAMBDA i : \E h \in Range(hits) : h.tx_id = df.rows[i]["tx_id"])

\* decisions.merge(grouped, on="tx_id", how="left"): the rows of the batch
\* the merged table has a row for, by index, in order.
merge_left(df, hits) == [i \in 1..Len(df.rows) |-> i]

triggered_controls(g) == Join(", ", Sorted({h.control_id : h \in Range(g)}))

\* Mutant: the actions joined as the hit rows come, neither deduplicated nor
\* sorted.
triggered_actions_as_hit(g) == Join(", ", [i \in DOMAIN g |-> g[i].action])

triggered_actions(g) == Join(", ", Sorted({h.action : h \in Range(g)}))

\* The final_action values the aggregation can give the batch's row i.
final_actions(df, hits, i) ==
    LET g == grouped(hits, df.rows[i]["tx_id"])
    IN  IF g = <<>> THEN {"ALLOW"}
        ELSE resolve_final_action({h.action : h \in Range(g)})

\* The ways to give every row of the batch one of its possible final actions.
final_action_choices(df, hits) ==
    LET possible == [i \in 1..Len(df.rows) |-> final_actions(df, hits, i)]
    IN  {fa \in [1..Len(df.rows) -> UNION Range(possible)] :
            \A i \in 1..Len(df.rows) : fa[i] \in possible[i]}

\* The decisions table, given which of the possible final actions each row
\* got (fa[i] for the batch's row i).
decisions_table(df, hits, fa) ==
    LET idx == IF hits = <<>> THEN [i \in 1..Len(df.rows) |-> i] ELSE merge_left(df, hits)
    IN  [k \in 1..Len(idx) |->
            LET r == df.rows[idx[k]]
                g == grouped(hits, r["tx_id"])
            IN  [tx_id              |-> cell_value(r["tx_id"]),
                 rail               |-> cell_value(r["rail"]),
                 timestamp          |-> cell_value(r["timestamp"]),
                 user_id            |-> cell_value(r["user_id"]),
                 amount             |-> cell_value(r["amount"]),
                 is_fraud_pattern   |-> cell_value(r["is_fraud_pattern"]),
                 final_action       |-> IF g = <<>> THEN "ALLOW" ELSE fa[idx[k]],
                 triggered_controls |-> IF g = <<>> THEN "" ELSE triggered_controls(g),
                 triggered_actions  |-> IF g = <<>> THEN "" ELSE triggered_actions(g)]]

----------------------------------------------------------------------------
(* Monitoring aggregator *)

\* The decimal places metrics are rounded to, as a scale: a rate is held as
\* an integer count of ten-thousandths (3333 is 0.3333).
Scale == 10000

\* floor(log2(num / den)), for num > 0 and den > 0.
RECURSIVE Log2Floor(_, _)
Log2Floor(num, den) ==
    IF num >= den THEN (IF num >= 2 * den THEN 1 + Log2Floor(num, 2 * den) ELSE 0)
    ELSE Log2Floor(2 * num, den) - 1

\* 2^e modulo m.
RECURSIVE Pow2Mod(_, _)
Pow2Mod(e, m) == IF e = 0 THEN 1 % m ELSE (2 * Pow2Mod(e - 1, m)) % m

\* The sign of float(num / den) - num / den: the quotient is the double of 53
\* significant bits nearest to the fraction (a tie to the even one), so it
\* lies below (-1) or above (1) the fraction unless it equals it (0).
FloatError(num, den) ==
    LET e == 52 - Log2Floor(num, den)
        r == ((num % den) * Pow2Mod(e, den)) % den
        odd == (((num % (2 * den)) * Pow2Mod(e, 2 * den)) % (2 * den)) >= den
    IN  IF r = 0 THEN 0
        ELSE IF 2 * r < den THEN -1
        ELSE IF 2 * r > den THEN 1
        ELSE IF odd THEN 1 ELSE -1

\* round(num / den, 4) in ten-thousandths.  Python rounds the float, not the
\* fraction: when the fraction lies exactly between two ten-thousandths the
\* float decides, by lying above or below it, and only a float equal to the
\* fraction is a tie, rounded to the even one.
round4(num, den) ==
    LET q == (Scale * num) \div den
        r == (Scale * num) % den
    IN  IF 2 * r < den THEN q
        ELSE IF 2 * r > den THEN q + 1
        ELSE CASE FloatError(num, den) < 0 -> q
               [] FloatError(num, den) > 0 -> q + 1
               [] OTHER -> IF q % 2 = 0 THEN q ELSE q + 1

\* hits_df.merge(tx[...], on=["tx_id", "rail"], how="left"): each hit with
\* the label of every row of the batch that has its transaction id and rail
\* (a merge takes two null keys for equal).
RECURSIVE labeled_hits(_, _)
labeled_hits(df, hits) ==
    IF hits = <<>> THEN <<>>
    ELSE LET h == Head(hits)
             m == SelectSeq(df.rows, LAMBDA r : r["tx_id"] = h.tx_id /\ r["rail"] = h.rail)
         IN  (IF m = <<>>
              THEN << [tx_id |-> h.tx_id, rail |-> h.rail, control_id |-> h.control_id,
                       is_fraud_pattern |-> NaN] >>
              ELSE [j \in 1..Len(m) |->
                      [tx_id |-> h.tx_id, rail |-> h.rail, control_id |-> h.control_id,
                       is_fraud_pattern |-> m[j]["is_fraud_pattern"]]])
             \o labeled_hits(df, Tail(hits))

\* g["is_fraud_pattern"]: the labels of a group, in its order.
labels_of(g) == [i \in DOMAIN g |-> g[i].is_fraud_pattern]

\* The sum of the labels that are not null, a bool counting as 0 or 1.
RECURSIVE label_sum(_)
label_sum(labels) ==
    IF labels = <<>> THEN 0
    ELSE (IF IsNull(Head(labels)) THEN 0 ELSE AsInt(Head(labels))) + label_sum(Tail(labels))

\* The text of the labels, one after the other.
RECURSIVE label_concat(_)
label_concat(labels) ==
    IF labels = <<>> THEN "" ELSE Head(labels).s \o label_concat(Tail(labels))

\* The message of the TypeError Series.mean() raises on labels that hold text
\* ("" when it raises none).  The label column is then of dtype object, and
\* nanmean adds its cells up from the first on as Python objects, a null as
\* the int 0: texts alone add up to a text, which _ensure_numeric refuses
\* (the wording of pandas 2); a text and an int cannot be added.
mean_error(labels) ==
    LET texts == {i \in DOMAIN labels : labels[i].t = "str"}
        nulls == {i \in DOMAIN labels : IsNull(labels[i])}
    IN  IF texts = {} THEN ""
        ELSE IF nulls = {}
        THEN "Could not convert string '" \o label_concat(labels) \o "' to numeric"
        ELSE IF 1 \in nulls THEN "unsupported operand type(s) for +: 'int' and 'str'"
        ELSE "can only concatenate str (not \"int\") to str"

\* round(nan, 4) is nan: a rate that is no count of ten-thousandths, held
\* as the number no rate is.
nan_rate == -1

\* round(float(g["is_fraud_pattern"].mean()), 4), in ten-thousandths: the
\* mean of the labels that are not null; of no label it is NaN, and so is
\* the rounded value.
mean(labels) ==
    LET present == SelectSeq(labels, LAMBDA x : ~IsNull(x))
    IN  IF present = <<>> THEN nan_rate ELSE round4(label_sum(present), Len(present))

\* Mutant: the hit rate is taken over the rows of the control's rail.
metrics_row_by_rail(df, control_id, g) ==
    LET total_tx == Len(SelectSeq(df.rows, LAMBDA r : r["rail"] = g[1].rail))
    IN  [control_id      |-> control_id,
         hits            |-> Len(g),
         hit_rate        |-> round4(Len(g), total_tx),
         precision_proxy |-> mean(labels_of(g))]

\* One row of metrics_rows: the group g of control_id; total_tx = len(tx).
metrics_row(df, control_id, g) ==
    LET total_tx == Len(df.rows)
    IN  [control_id      |-> control_id,
         hits            |-> Len(g),
         hit_rate        |-> round4(Len(g), total_tx),
         precision_proxy |-> mean(labels_of(g))]

\* metrics_rows: one row per group of labeled_hits.groupby("control_id"),
\* the groups in ascending order of control_id.
metrics_rows(df, hits) ==
    LET lh  == labeled_hits(df, hits)
        ids == Sorted({x.control_id : x \in Range(lh)})
    IN  [k \in 1..Len(ids) |->
            metrics_row(df, ids[k], SelectSeq(lh, LAMBDA x : x.control_id = ids[k]))]

\* Mutant: the rows are left in the order of the groups.
sort_values_skipped(rows) == {rows}

\* DataFrame.sort_values(by="hits", ascending=False), with the default
\* kind="quicksort", which is not stable: the orders it can return are the
\* arrangements of the rows by descending hits, rows of equal hits in any
\* order.
sort_values(rows) ==
    LET n == Len(rows)
        bijections == {f \in [1..n -> 1..n] : \A i, j \in 1..n : f[i] = f[j] => i = j}
    IN  {[i \in 1..n |-> rows[f[i]]] :
            f \in {g \in bijections : \A i, j \in 1..n : i < j => rows[g[i]].hits >= rows[g[j]].hits}}

\* The tables metrics_df can be.
metrics_table(df, hits) ==
    IF hits = <<>> THEN {<<>>} ELSE sort_values(metrics_rows(df, hits))

\* The message of the ValueError the merge of labeled_hits raises on keys of
\* two kinds ("" when it raises none): every hit holds a null tx_id, so that
\* the tx_id column of hits_df is float64, and the one of tx holds text.
merge_error(df, hits) ==
    IF /\ hits # <<>>
       /\ \A i \in DOMAIN hits : IsNull(hits[i].tx_id)
       /\ \E j \in DOMAIN df.rows : df.rows[j]["tx_id"].t = "str"
    THEN "You are trying to merge on float64 and object columns for key 'tx_id'. "
             \o "If you wish to proceed you should use pd.concat"
    ELSE ""

\* The message of the exception that ends evaluate_controls after the loop
\* over the controls ("" when it returns): the error of the merge, or of the
\* mean of the first group, in ascending order of control_id, that has one.
evaluate_error(df, hits) ==
    IF merge_error(df, hits) # "" THEN merge_error(df, hits)
    ELSE LET lh  == labeled_hits(df, hits)
             ids == Sorted({x.control_id : x \in Range(lh)})
             err == [k \in DOMAIN ids |->
                        mean_error(labels_of(SelectSeq(lh, LAMBDA x : x.control_id = ids[k])))]
             bad == {k \in DOMAIN ids : err[k] # ""}
         IN  IF bad = {} THEN "" ELSE err[CHOOSE k \in bad : \A m \in bad : k <= m]

----------------------------------------------------------------------------
(* Inputs *)

\* The sequences over S of length at most n.
SeqsUpTo(S, n) == UNION {[1..k -> S] : k \in 0..n}

\* required_cols
required_cols == {"tx_id", "rail", "timestamp", "user_id", "amount", "is_fraud_pattern"}

\* required_cols in the order evaluate_controls checks and selects them.
required_cols_order == <<"tx_id", "rail", "timestamp", "user_id", "amount", "is_fraud_pattern">>

\* The required columns the batch lacks, in the order of the check.
missing_required(df) ==
    LET F[i \in 0..Len(required_cols_order)] ==
            IF i = 0 THEN <<>>
            ELSE IF required_cols_order[i] \in df.columns THEN F[i - 1]
                 ELSE Append(F[i - 1], required_cols_order[i])
    IN  F[Len(required_cols_order)]

\* The rail-specific columns of the batch the model carries.
optional_cols == {"funding_speed", "return_code", "account_age_days", "is_new_device"}

\* make_id(prefix, n) of generate_synthetic_data.py, for n < 10.
make_id(prefix, n) == prefix \o "_00000" \o ToString(n)

\* Rows as generate_*_transactions shape them: the fields of the other rails
\* are None.
AchInstant ==
    [rail |-> Str("ACH"), timestamp |-> Str("2025-01-01 00:00:00"), user_id |-> Str("user_000001"),
     amount |-> Num(6000), funding_speed |-> Str("instant"), return_code |-> NaN,
     account_age_days |-> Num(10), is_new_device |-> NaN, card_present |-> NaN]

AchReturned ==
    [rail |-> Str("ACH"), timestamp |-> Str("2025-01-02 00:00:00"), user_id |-> Str("user_000002"),
     amount |-> Num(100), funding_speed |-> Str("standard"), return_code |-> Str("R01"),
     account_age_days |-> Num(400), is_new_device |-> NaN, card_present |-> NaN]

CardNewDevice ==
    [rail |-> Str("CARD"), timestamp |-> Str("2025-01-03 00:00:00"), user_id |-> Str("user_000003"),
     amount |-> Num(2000), funding_speed |-> NaN, return_code |-> NaN,
     account_age_days |-> Num(10), is_new_device |-> Bool(TRUE), card_present |-> Bool(FALSE)]

\* A row as a CSV written by another producer can hold it: booleans and
\* numbers as text, mixed case.
CardAsText ==
    [rail |-> Str("CARD"), timestamp |-> Str("2025-01-04 00:00:00"), user_id |-> Str("user_000004"),
     amount |-> Num(5000), funding_speed |-> Str("Instant"), return_code |-> Str("R10"),
     account_age_days |-> Str("unknown"), is_new_device |-> Str(" True "),
     card_present |-> Bool(FALSE)]

\* The label main() gives a row it generated: the ACH pattern (instant
\* funding, above 5000, account younger than 30 days) or the card pattern
\* (card not present, above 800, new device).
is_fraud_pattern(p) ==
    \/ /\ p.rail = Str("ACH")
       /\ p.funding_speed = Str("instant")
       /\ p.amount.n > 5000
       /\ p.account_age_days.n < 30
    \/ /\ p.rail = Str("CARD")
       /\ p.card_present = Bool(FALSE)
       /\ p.amount.n > 800
       /\ p.is_new_device = Bool(TRUE)

\* The rows main() writes of the given profiles, each with its label.
Generated(profiles) == {<<p, is_fraud_pattern(p)>> : p \in profiles}

\* The row of a batch with the given columns: profile p, labelled fraud or
\* not, as the n-th transaction.
Row(cols, n, p, fraud) ==
    [c \in cols |->
        CASE c = "tx_id" -> Str(make_id("tx", n))
          [] c = "is_fraud_pattern" -> Bool(fraud)
          [] OTHER -> p[c]]

\* pd.read_csv types a column as a whole: a column that holds text in some
\* cell holds text in every cell, a number or a boolean as the file spells
\* it; an empty field stays a null.
read_csv(df) ==
    LET is_text(c) == \E i \in DOMAIN df.rows : df.rows[i][c].t = "str"
        as_text(x) == IF x.t \in {"num", "bool"} THEN Str(PyStr(x)) ELSE x
    IN  [df EXCEPT !.rows =
            [i \in DOMAIN df.rows |->
                [c \in df.columns |->
                    IF is_text(c) THEN as_text(df.rows[i][c]) ELSE df.rows[i][c]]]]

\* The frame of the rows ps over the given columns, as read from a file.
Frame(cols, ps) ==
    read_csv([columns |-> cols, rows |-> [i \in DOMAIN ps |-> Row(cols, i, ps[i], FALSE)]])

\* The batches of at most MaxTx rows drawn from the choices (each a
\* <<profile, label>>), over the given columns.
Batches(cols, choices) ==
    {read_csv([columns |-> cols,
               rows    |-> [i \in DOMAIN c |-> Row(cols, i, c[i][1], c[i][2])]])
        : c \in SeqsUpTo(choices, MaxTx)}

\* main() of generate_synthetic_data.py has not been started.
GeneratorIdle == [pc |-> "idle", text |-> ""]

----------------------------------------------------------------------------
(* The transactions file: DataFrame.to_csv and pd.read_csv *)

\* The columns of combined_transactions.csv the model carries, in the order
\* main() writes them: the keys of the row dicts, then the label.
csv_columns ==
    <<"tx_id", "rail", "timestamp", "user_id", "account_age_days", "amount",
      "funding_speed", "return_code", "is_new_device", "is_fraud_pattern">>

Min(a, b) == IF a < b THEN a ELSE b

Max(a, b) == IF a < b THEN b ELSE a

\* A cell as to_csv writes it: a null as the empty field, the amount (a
\* float) with its fraction, anything else as str() gives it.
csv_field(c, x) ==
    CASE IsNull(x) -> ""
      [] x.t = "num" /\ c = "amount" -> ToString(x.n) \o ".0"
      [] OTHER -> PyStr(x)

\* df.to_csv(path, index=False), as text: the header line, then one line
\* per row, each ended by a newline.
to_csv(df) ==
    LET cols == SelectSeq(csv_columns, LAMBDA c : c \in df.columns)
        line(r) == Join(",", [i \in DOMAIN cols |-> csv_field(cols[i], r[cols[i]])]) \o "\n"
        body[k \in 0..Len(df.rows)] ==
            IF k = 0 THEN Join(",", cols) \o "\n" ELSE body[k - 1] \o line(df.rows[k])
    IN  body[Len(df.rows)]

\* The position of the first ch in s at or after position i, 0 if none.
RECURSIVE Find(_, _, _)
Find(s, ch, i) ==
    IF i > Len(s) THEN 0
    ELSE IF SubSeq(s, i, i) = ch THEN i
    ELSE Find(s, ch, i + 1)

\* s.split(ch)
RECURSIVE Split(_, _)
Split(s, ch) ==
    LET i == Find(s, ch, 1)
    IN  IF i = 0 THEN <<s>>
        ELSE <<SubSeq(s, 1, i - 1)>> \o Split(SubSeq(s, i + 1, Len(s)), ch)

\* The fields pd.read_csv reads as a null (its default na_values).
na_values ==
    {"", "#N/A", "#N/A N/A", "#NA", "-1.#IND", "-1.#QNAN", "-NaN", "-nan", "1.#IND",
     "1.#QNAN", "<NA>", "N/A", "NA", "NULL", "NaN", "None", "n/a", "nan", "null"}

\* The fields pd.read_csv reads as booleans.
true_values == {"True", "TRUE", "true"}

false_values == {"False", "FALSE", "false"}

\* A field that is a number of the model: digits, with an optional
\* fraction of zeros (6000, 6000.0, 6000., .0).
is_number(s) ==
    LET dot  == Find(s, ".", 1)
        int  == IF dot = 0 THEN s ELSE SubSeq(s, 1, dot - 1)
        frac == IF dot = 0 THEN "" ELSE SubSeq(s, dot + 1, Len(s))
    IN  /\ Len(int) + Len(frac) > 0
        /\ \A i \in 1..Len(int) :
               SubSeq(int, i, i) \in {"0", "1", "2", "3", "4", "5", "6", "7", "8", "9"}
        /\ \A i \in 1..Len(frac) : SubSeq(frac, i, i) = "0"

number_value(s) ==
    LET dot == Find(s, ".", 1)
    IN  NumeralValue(IF dot = 0 THEN s ELSE SubSeq(s, 1, dot - 1))

\* The cells of one column, from the fields of its lines: pd.read_csv types
\* the column as a whole: numbers if every field that is not a null is a
\* number, else booleans if every one is a boolean, else text as spelled.
column_cells(fields) ==
    LET present == {j \in DOMAIN fields : fields[j] \notin na_values}
    IN  IF \A j \in present : is_number(fields[j])
        THEN [j \in DOMAIN fields |->
                 IF j \in present THEN Num(number_value(fields[j])) ELSE NaN]
        ELSE IF \A j \in present : fields[j] \in true_values \cup false_values
        THEN [j \in DOMAIN fields |->
                 IF j \in present THEN Bool(fields[j] \in true_values) ELSE NaN]
        ELSE [j \in DOMAIN fields |-> IF j \in present THEN Str(fields[j]) ELSE NaN]

\* The message of the EmptyDataError pd.read_csv raises on a file of no
\* bytes.
empty_data_error == "No columns to parse from file"

\* The message of the ParserError pd.read_csv raises on a line of more
\* fields than the line before it.
parser_error(expected, line, saw) ==
    "Error tokenizing data. C error: Expected " \o ToString(expected)
        \o " fields in line " \o ToString(line) \o ", saw " \o ToString(saw) \o "\n"

\* No frame: what tx holds before pd.read_csv has returned.
NoFrame == [columns |-> {}, rows |-> <<>>]

\* pd.read_csv on the text it has read, with its default options: blank
\* lines are skipped; the first line is the header (a field of no characters
\* is named Unnamed: k); a line of fewer fields than the header is filled
\* with nulls; the first data line may hold more fields than the header, and
\* then the leading fields of every line are the index and not a column; a
\* later line of more fields is an error.  The result is the error message,
\* or the frame.
parse_csv(text) ==
    LET raw   == Split(text, "\n")
        kept  == SelectSeq([i \in DOMAIN raw |-> i], LAMBDA i : raw[i] # "")
        line  == [k \in DOMAIN kept |-> Split(raw[kept[k]], ",")]
        head  == line[1]
        names == [k \in DOMAIN head |->
                     IF head[k] = "" THEN "Unnamed: " \o ToString(k - 1) ELSE head[k]]
        width == IF Len(line) = 1 THEN Len(head) ELSE Max(Len(head), Len(line[2]))
        lead  == width - Len(head)
        bad   == {k \in 3..Len(line) : Len(line[k]) > width}
        first == CHOOSE k \in bad : \A m \in bad : k <= m
        field(k, c) == IF lead + c <= Len(line[k]) THEN line[k][lead + c] ELSE ""
        col   == [c \in DOMAIN head |->
                     column_cells([j \in 1..(Len(line) - 1) |-> field(j + 1, c)])]
        at(n) == CHOOSE c \in DOMAIN head : names[c] = n
    IN  IF kept = <<>> THEN [error |-> empty_data_error, frame |-> NoFrame]
        ELSE IF bad # {}
        THEN [error |-> parser_error(width, kept[first], Len(line[first])), frame |-> NoFrame]
        ELSE [error |-> "",
              frame |-> [columns |-> Range(names),
                         rows    |-> [j \in 1..(Len(line) - 1) |->
                                        [n \in Range(names) |-> col[at(n)][j]]]]]

EngineRows == Generated({AchInstant, AchReturned, CardNewDevice})

Control(id, rail, severity, action, description, conds) ==
    [control_id |-> id, rail |-> rail, severity |-> severity, action |-> action,
     description |-> description, conditions |-> conds]

\* The controls a YAML file of the engine's run can hold.  Two share the id
\* ACH_ALL, and one has an action outside ALLOW/REVIEW/BLOCK.
EngineControls ==
    { Control("ACH_FAST_NEW", "ACH", "MEDIUM", "REVIEW", "instant funding, new account",
              << <<"funding_speed", Str("instant")>>, <<"amount_gt", Num(5000)>>,
                 <<"account_age_lt_days", Num(30)>> >>),
      Control("ACH_RETURN", "ACH", "HIGH", "BLOCK", "risky return code",
              << <<"return_code_in", List({Str("R01"), Str("R10")})>> >>),
      Control("ACH_ALL", "ACH", "LOW", "ALLOW", "", <<>>),
      Control("ACH_ALL", "ACH", "HIGH", "BLOCK", "", << <<"amount_gte", Num(6000)>> >>),
      Control("ACH_FLAG", "ACH", "LOW", "FLAG", "flag for analytics",
              << <<"funding_speed", Str("INSTANT")>> >>),
      Control("ACH_SMALL", "ACH", "MEDIUM", "REVIEW", "", << <<"amount_lte", Num(100)>> >>),
      Control("CARD_NEW_DEVICE", "CARD", "MEDIUM", "REVIEW", "new device",
              << <<"is_new_device", Bool(TRUE)>> >>) }

----------------------------------------------------------------------------
(* The engine *)

NoTables == [decisions |-> <<>>, hits |-> <<>>, metrics |-> <<>>]

\* A working directory and a standard output with which every step of run()
\* succeeds: data is a directory (or absent), both inputs exist, no output
\* path is a file the process may not write or a directory, and standard
\* output encodes any character.
AllFilesFine ==
    [data_is_file |-> FALSE, tx_exists |-> TRUE, controls_exists |-> TRUE,
     read_only |-> {}, directories |-> {}, stdout_encoding |-> "utf-8"]

\* The columns of pd.DataFrame(hit_rows): the keys of the appended dicts, and
\* none at all when the list is empty.
hits_columns(hits) ==
    IF hits = <<>> THEN <<>>
    ELSE <<"tx_id", "rail", "control_id", "severity", "action", "description">>

\* The columns of decisions: the six selected ones, then the three added ones
\* (assigned one by one without hits, merged in from grouped with hits).
decisions_columns(hits) ==
    required_cols_order \o
        (IF hits = <<>> THEN <<"final_action", "triggered_controls", "triggered_actions">>
         ELSE <<"triggered_controls", "triggered_actions", "final_action">>)

\* The columns of metrics_df, with or without rows.
metrics_columns == <<"control_id", "hits", "hit_rate", "precision_proxy">>

Init ==
    /\ tx \in Batches(required_cols \cup optional_cols, EngineRows)
    /\ controls \in SeqsUpTo(EngineControls, MaxControls)
    /\ conditions = <<>>
    /\ mask = <<>>
    /\ pc = "ready"
    /\ hits_df = <<>>
    /\ decisions = <<>>
    /\ metrics_df = <<>>
    /\ prev = NoTables
    /\ table_columns = NoTables
    /\ fs = AllFilesFine
    /\ written = {}
    /\ error = ""
    /\ gen = GeneratorIdle
    /\ tx_file = ""
    /\ rd = ""

\* evaluate_controls(tx, controls).  The engine may be run a second time,
\* on the same inputs or on a reordered control list (another process, with
\* its own string hash seed); prev keeps the tables of the first run.
EvaluateControls ==
    /\ pc \in {"ready", "done", "permuted"}
    /\ missing_required(tx) = <<>>
    /\ \E hits \in {hit_rows(tx, controls)} :
           /\ evaluate_error(tx, hits) = ""
           /\ hits_df' = hits_table(hits)
           /\ decisions' \in {decisions_table(tx, hits, fa) : fa \in final_action_choices(tx, hits)}
           /\ metrics_df' \in metrics_table(tx, hits)
    /\ prev' = [decisions |-> decisions, hits |-> hits_df, metrics |-> metrics_df]
    /\ table_columns' = [decisions |-> decisions_columns(hits_df'),
                         hits      |-> hits_columns(hits_df'),
                         metrics   |-> metrics_columns]
    /\ pc' = CASE pc = "ready" -> "done"
                [] pc = "done" -> "done_twice"
                [] pc = "permuted" -> "done_permuted"
    /\ UNCHANGED <<tx, controls, conditions, mask, fs, written, error, gen, tx_file, rd>>

\* The one call of evaluate_controls in run().
RunEvaluate ==
    /\ pc = "ready"
    /\ EvaluateControls

Next == RunEvaluate

Spec == Init /\ [][Next]_vars

----------------------------------------------------------------------------
(* The condition matcher on its own *)

\* The frames build_mask_for_conditions is called on: the rows of one rail,
\* never empty, with or without the rail-specific columns.
AllRows == <<AchInstant, AchReturned, CardNewDevice, CardAsText>>

MaskFrames ==
    {Frame(cols, ps) :
            cols \in {required_cols, required_cols \cup optional_cols},
            ps \in {<<AllRows[i]>> : i \in DOMAIN AllRows}
                   \cup {<<AchInstant, AchReturned>>, <<CardNewDevice, CardAsText>>}}

\* The single conditions of the matcher's inputs.
ConditionAtoms ==
    { <<"funding_speed", Str("instant")>>,
      <<"funding_speed", Str("<NA>")>>,
      <<"return_code", Str("nan")>>,
      <<"return_code_in", List({Str("R01"), Str("R10")})>>,
      <<"amount_gt", Num(5000)>>,
      <<"amount_lte", Num(5000)>>,
      <<"account_age_lt_days", Num(30)>>,
      <<"account_age_days_gte", Num(30)>>,
      <<"account_age_days", Num(10)>>,
      <<"is_new_device", Bool(TRUE)>>,
      <<"wallet_age_lt_days", Num(7)>>,
      <<"ghost_in", List({Str("<NA>"), Str("nan")})>>,
      <<"ghost", Bool(FALSE)>>,
      <<"ghost_field", Num(0)>> }

\* The condition mappings: at most MaxConds conditions, no key twice.
ConditionMaps ==
    {c \in SeqsUpTo(ConditionAtoms, MaxConds) :
        \A i, j \in DOMAIN c : i # j => c[i][1] # c[j][1]}

InitMask ==
    /\ tx \in MaskFrames
    /\ conditions \in ConditionMaps
    /\ controls = <<>>
    /\ mask = <<>>
    /\ pc = "mask"
    /\ hits_df = <<>>
    /\ decisions = <<>>
    /\ metrics_df = <<>>
    /\ prev = NoTables
    /\ table_columns = NoTables
    /\ fs = AllFilesFine
    /\ written = {}
    /\ error = ""
    /\ gen = GeneratorIdle
    /\ tx_file = ""
    /\ rd = ""

\* build_mask_for_conditions(rail_df, control.conditions)
BuildMask ==
    /\ pc = "mask"
    /\ mask' = build_mask_for_conditions(tx, conditions)
    /\ pc' = "masked"
    /\ UNCHANGED <<tx, controls, conditions, hits_df, decisions, metrics_df, prev,
                   table_columns, fs, written, error, gen, tx_file, rd>>

NextMask == BuildMask

SpecMask == InitMask /\ [][NextMask]_vars

----------------------------------------------------------------------------
(* The condition matcher on keys that hold a suffix twice *)

\* The specification SpecKeys calls build_mask_for_conditions with a single
\* condition whose key may hold the text of a suffix before its last
\* suffix, on frames that have the column so named.
KeyCols ==
    {"x", "x_in_y", "x_y", "a", "a_gt_b", "a_gte_b", "a_lte_b", "a_b", "ae_b",
     "account_age_days", "d_lt_days_e"}

KeyRow(text, other, n, m) ==
    [rail |-> Str("ACH"), timestamp |-> Str("2025-01-01 00:00:00"), user_id |-> Str("user_000001"),
     amount |-> Num(100),
     x |-> Str(text), x_in_y |-> Str(text), x_y |-> Str(other),
     a |-> Num(n), a_gt_b |-> Num(n), a_gte_b |-> Num(n), a_lte_b |-> Num(n),
     a_b |-> Num(m), ae_b |-> Num(m),
     account_age_days |-> Num(n), d_lt_days_e |-> Num(n)]

KeyRows == <<KeyRow("R01", "ZZ", 10, 5), KeyRow("ZZ", "R01", 15, 10), KeyRow("R01", "R01", 5, 15)>>

\* One- and two-row frames, with and without the columns whose names are a
\* key with every occurrence of a suffix removed.
KeyFrames ==
    {Frame(cols, ps) :
            cols \in {required_cols \cup KeyCols, required_cols \cup (KeyCols \ {"x_y", "a_b", "ae_b"})},
            ps \in {<<KeyRows[i]>> : i \in DOMAIN KeyRows}
                   \cup {<<KeyRows[1], KeyRows[2]>>, <<KeyRows[2], KeyRows[3]>>}}

KeyAtoms ==
    { <<"x_in", List({Str("R01")})>>,
      <<"x_in_y_in", List({Str("R01")})>>,
      <<"a_gt", Num(10)>>,
      <<"a_gte", Num(10)>>,
      <<"a_lt", Num(10)>>,
      <<"a_lte", Num(10)>>,
      <<"a_gt_b_gt", Num(10)>>,
      <<"a_gt_b_lt", Num(10)>>,
      <<"a_gte_b_gt", Num(10)>>,
      <<"a_lte_b_lte", Num(10)>>,
      <<"a_gt_days", Num(10)>>,
      <<"account_age_lt_days", Num(10)>>,
      <<"account_age_lte", Num(10)>>,
      <<"d_lt_days_e_lt_days", Num(10)>>,
      <<"d_lt_days_e_gte_days", Num(10)>> }

InitKeys ==
    /\ tx \in KeyFrames
    /\ conditions \in {<<atom>> : atom \in KeyAtoms}
    /\ controls = <<>>
    /\ mask = <<>>
    /\ pc = "mask"
    /\ hits_df = <<>>
    /\ decisions = <<>>
    /\ metrics_df = <<>>
    /\ prev = NoTables
    /\ table_columns = NoTables
    /\ fs = AllFilesFine
    /\ written = {}
    /\ error = ""
    /\ gen = GeneratorIdle
    /\ tx_file = ""
    /\ rd = ""

SpecKeys == InitKeys /\ [][NextMask]_vars

----------------------------------------------------------------------------
(* The engine on a catalogue of overlapping controls *)

\* The specification SpecHits runs evaluate_controls on batches of two rails
\* under controls that overlap: two that hit the same ACH records with
\* different actions, two that share an id, one with an action outside the
\* three, and one of the other rail.
HitsRows == Generated({AchInstant, CardNewDevice})

HitsControls ==
    { Control("ACH_FAST_NEW", "ACH", "MEDIUM", "REVIEW", "instant funding, new account",
              << <<"funding_speed", Str("instant")>>, <<"amount_gt", Num(5000)>>,
                 <<"account_age_lt_days", Num(30)>> >>),
      Control("ACH_ALL", "ACH", "HIGH", "BLOCK", "", << <<"amount_gte", Num(6000)>> >>),
      Control("ACH_ALL", "ACH", "LOW", "ALLOW", "", <<>>),
      Control("ACH_FLAG", "ACH", "LOW", "FLAG", "flag for analytics",
              << <<"funding_speed", Str("INSTANT")>> >>),
      Control("CARD_NEW_DEVICE", "CARD", "MEDIUM", "REVIEW", "new device",
              << <<"is_new_device", Bool(TRUE)>> >>) }

InitHits ==
    /\ tx \in Batches(required_cols \cup optional_cols, HitsRows)
    /\ controls \in SeqsUpTo(HitsControls, MaxControls)
    /\ conditions = <<>>
    /\ mask = <<>>
    /\ pc = "ready"
    /\ hits_df = <<>>
    /\ decisions = <<>>
    /\ metrics_df = <<>>
    /\ prev = NoTables
    /\ table_columns = NoTables
    /\ fs = AllFilesFine
    /\ written = {}
    /\ error = ""
    /\ gen = GeneratorIdle
    /\ tx_file = ""
    /\ rd = ""

SpecHits == InitHits /\ [][Next]_vars

\* The orders the controls of the list can be put in.
Reorderings(seq) ==
    {[i \in DOMAIN seq |-> seq[f[i]]] :
        f \in {g \in [DOMAIN seq -> DOMAIN seq] : \A i, j \in DOMAIN seq : g[i] = g[j] => i = j}}

\* Between two runs the controls file is rewritten with the same controls in
\* another order; load_controls keeps the order of the file.
PermuteControls ==
    /\ pc = "done"
    /\ controls' \in Reorderings(controls) \ {controls}
    /\ pc' = "permuted"
    /\ UNCHANGED <<tx, conditions, mask, hits_df, decisions, metrics_df, prev,
                   table_columns, fs, written, error, gen, tx_file, rd>>

NextPerm == EvaluateControls \/ PermuteControls

\* The engine run on a control list and then once more, on the same list or
\* on a reordering of it.
SpecPerm == InitHits /\ [][NextPerm]_vars

----------------------------------------------------------------------------
(* Properties of the engine (specification Spec) *)

Done == pc \in {"done", "done_twice"}

\* The hit rows on one transaction id / of one control id.
HitsOn(tx_id) == {i \in DOMAIN hits_df : hits_df[i].tx_id = tx_id}
HitsOf(control_id) == {i \in DOMAIN hits_df : hits_df[i].control_id = control_id}
ActionsOn(tx_id) == {hits_df[i].action : i \in HitsOn(tx_id)}

TxIds == {r["tx_id"].s : r \in Range(tx.rows)}
TxRow(tx_id) == CHOOSE r \in Range(tx.rows) : r["tx_id"].s = tx_id

\* C1: the decisions table has exactly one row per transaction id of the
\* batch: every id of the batch has one row and only one, and no row has an
\* id the batch lacks, whether the transaction has zero, one or many hits.
C1_OneDecisionPerTransaction ==
    Done =>
        /\ \A t \in TxIds : Cardinality({k \in DOMAIN decisions : decisions[k].tx_id = t}) = 1
        /\ \A k \in DOMAIN decisions : decisions[k].tx_id \in TxIds

\* C1's case: a batch where one transaction has no hit, one has one hit and
\* one has two.
C1_Witness ==
    /\ Done
    /\ \E a, b, c \in TxIds :
          /\ Cardinality(HitsOn(a)) = 0
          /\ Cardinality(HitsOn(b)) = 1
          /\ Cardinality(HitsOn(c)) = 2

\* C2: final_action is one of ALLOW, REVIEW, BLOCK in every decision row,
\* for any loaded control set.
C2_FinalActionInEnum ==
    Done => \A k \in DOMAIN decisions : decisions[k].final_action \in {"ALLOW", "REVIEW", "BLOCK"}

\* The ranking the claim states: ALLOW < REVIEW < BLOCK, an unrecognized
\* action lowest.
ClaimedRank(a) == IF a = "BLOCK" THEN 2 ELSE IF a = "REVIEW" THEN 1 ELSE 0

\* C3: final_action is an action of highest rank among the actions of the
\* controls that hit the transaction: BLOCK iff some hit has action BLOCK,
\* REVIEW iff no hit has BLOCK and some hit has REVIEW.
C3_FinalActionIsMaxPriority ==
    Done =>
        \A k \in DOMAIN decisions :
            LET acts == ActionsOn(decisions[k].tx_id)
                fa   == decisions[k].final_action
            IN  /\ (fa = "BLOCK") <=> ("BLOCK" \in acts)
                /\ (fa = "REVIEW") <=> ("BLOCK" \notin acts /\ "REVIEW" \in acts)
                /\ acts # {} => /\ fa \in acts
                                /\ \A a \in acts : ClaimedRank(a) <= ClaimedRank(fa)

\* C3's case: a transaction hit by a BLOCK control and a REVIEW control.
C3_Witness ==
    /\ Done
    /\ \E a \in TxIds : ActionsOn(a) = {"BLOCK", "REVIEW"}

\* C4: a transaction with no hit gets final_action ALLOW and empty
\* triggered_controls and triggered_actions, also when other transactions of
\* the batch have hits.
C4_NoHitIsAllow ==
    Done =>
        \A k \in DOMAIN decisions :
            HitsOn(decisions[k].tx_id) = {} =>
                /\ decisions[k].final_action = "ALLOW"
                /\ decisions[k].triggered_controls = ""
                /\ decisions[k].triggered_actions = ""

\* C4's case: the hit list is not empty and some transaction has no hit.
C4_Witness ==
    /\ Done
    /\ hits_df # <<>>
    /\ \E k \in DOMAIN decisions : HitsOn(decisions[k].tx_id) = {}

\* C5: every hit is on a transaction of the rail of a loaded control with
\* the hit's control id and action, and the triggered control ids and
\* actions of a decision row are those of controls of the row's rail.
C5_HitsStayOnTheControlsRail ==
    Done =>
        /\ \A h \in Range(hits_df) :
              /\ h.tx_id \in TxIds
              /\ TxRow(h.tx_id)["rail"].s = h.rail
              /\ \E c \in Range(controls) :
                    c.control_id = h.control_id /\ c.action = h.action /\ c.rail = h.rail
        /\ \A k \in DOMAIN decisions :
              LET own == {c \in Range(controls) :
                            /\ c.rail = decisions[k].rail
                            /\ \E i \in HitsOn(decisions[k].tx_id) :
                                  hits_df[i].control_id = c.control_id /\ hits_df[i].action = c.action}
              IN  /\ decisions[k].triggered_controls = Join(", ", Sorted({c.control_id : c \in own}))
                  /\ decisions[k].triggered_actions = Join(", ", Sorted({c.action : c \in own}))

\* C5's case: a control with an empty condition mapping has hits, and the
\* batch holds a transaction of another rail.
C5_Witness ==
    /\ Done
    /\ \E c \in Range(controls) :
          /\ c.conditions = <<>>
          /\ HitsOf(c.control_id) # {}
          /\ \E r \in Range(tx.rows) : r["rail"].s # c.rail

\* C7: hit_rate and precision_proxy of every metrics row are in [0, 1].
C7_RatesWithinUnitInterval ==
    Done =>
        \A k \in DOMAIN metrics_df :
            /\ 0 <= metrics_df[k].hit_rate /\ metrics_df[k].hit_rate <= Scale
            /\ 0 <= metrics_df[k].precision_proxy /\ metrics_df[k].precision_proxy <= Scale

\* C8: the metrics table has exactly one row for each control id with at
\* least one hit, no row for a control without hits, and its rows are in
\* order of non-increasing hits.
C8_MetricsRowsAndOrder ==
    Done =>
        /\ \A h \in Range(hits_df) :
              Cardinality({k \in DOMAIN metrics_df : metrics_df[k].control_id = h.control_id}) = 1
        /\ \A k \in DOMAIN metrics_df : HitsOf(metrics_df[k].control_id) # {}
        /\ \A c \in Range(controls) :
              HitsOf(c.control_id) = {} =>
                  \A k \in DOMAIN metrics_df : metrics_df[k].control_id # c.control_id
        /\ \A k \in 1..(Len(metrics_df) - 1) : metrics_df[k].hits >= metrics_df[k + 1].hits

\* C8's case: of two controls one has hits and the other none, because no
\* transaction of the batch is of its rail.
C8_Witness ==
    /\ Done
    /\ Len(controls) = 2
    /\ Len(metrics_df) = 1
    /\ \E c \in Range(controls) :
          /\ HitsOf(c.control_id) = {}
          /\ \A r \in Range(tx.rows) : r["rail"].s # c.rail

\* The hits of a control id whose transaction, joined on (tx_id, rail),
\* carries the fraud label.
FraudHitsOf(control_id) ==
    {i \in HitsOf(control_id) :
        \E r \in Range(tx.rows) :
            /\ r["tx_id"].s = hits_df[i].tx_id
            /\ r["rail"].s = hits_df[i].rail
            /\ r["is_fraud_pattern"].b}

DistinctControlIds ==
    \A i, j \in DOMAIN controls : i # j => controls[i].control_id # controls[j].control_id

\* C9 as stated: hits is the number of hit rows of the control id, hit_rate
\* is exactly hits / len(tx) and precision_proxy is exactly the fraction of
\* its hits that carry the fraud label (here for control sets without a
\* repeated control id).
C9_ExactRates ==
    (Done /\ DistinctControlIds) =>
        \A k \in DOMAIN metrics_df :
            LET n == Cardinality(HitsOf(metrics_df[k].control_id))
                f == Cardinality(FraudHitsOf(metrics_df[k].control_id))
            IN  /\ metrics_df[k].hits = n
                /\ metrics_df[k].hit_rate * Len(tx.rows) = n * Scale
                /\ metrics_df[k].precision_proxy * n = f * Scale

\* C9 amended: hits is the number of hit rows of the control id; hit_rate is
\* hits / len(tx), over the whole batch, rounded to 4 decimal places;
\* precision_proxy is the fraction of its hits that carry the fraud label,
\* rounded to 4 decimal places.  (x is y rounded to 4 places: x is a count
\* of ten-thousandths within half a ten-thousandth of y.)
C9_RoundedRates ==
    Done =>
        \A k \in DOMAIN metrics_df :
            LET n == Cardinality(HitsOf(metrics_df[k].control_id))
                f == Cardinality(FraudHitsOf(metrics_df[k].control_id))
                Abs(x) == IF x < 0 THEN -x ELSE x
            IN  /\ metrics_df[k].hits = n
                /\ 2 * Abs(metrics_df[k].hit_rate * Len(tx.rows) - n * Scale) <= Len(tx.rows)
                /\ 2 * Abs(metrics_df[k].precision_proxy * n - f * Scale) <= n

\* C9's case: in a batch of two rails, a control whose hit rate is rounded
\* and only some of whose hits carry the fraud label.
C9_Witness ==
    /\ Done
    /\ \E r1, r2 \in Range(tx.rows) : r1["rail"] # r2["rail"]
    /\ \E k \in DOMAIN metrics_df :
          /\ (metrics_df[k].hits * Scale) % Len(tx.rows) # 0
          /\ 0 < metrics_df[k].precision_proxy
          /\ metrics_df[k].precision_proxy < Scale

\* C10: a second run on the same batch and control set yields the same
\* decisions, hits and metrics tables as the first (specification SpecPerm,
\* where the engine runs twice).
C10_SecondRunIdentical ==
    pc = "done_twice" =>
        /\ decisions = prev.decisions
        /\ hits_df = prev.hits
        /\ metrics_df = prev.metrics

\* C13: when no control produces a hit (no match, no record of a control's
\* rail, an empty batch), evaluate_controls raises nothing and its three
\* tables have their columns: the hits table its six, the metrics table its
\* four, the decisions table its nine.
C13_EmptyOutputsKeepTheirColumns ==
    (Done /\ hits_df = <<>>) =>
        /\ error = ""
        /\ metrics_df = <<>>
        /\ Range(table_columns.hits) =
               {"tx_id", "rail", "control_id", "severity", "action", "description"}
        /\ Range(table_columns.metrics) = {"control_id", "hits", "hit_rate", "precision_proxy"}
        /\ Range(table_columns.decisions) =
               required_cols \cup {"final_action", "triggered_controls", "triggered_actions"}

\* q lists the strings of S once each, in ascending lexicographic order.
ListsInOrder(q, S) ==
    /\ Len(q) = Cardinality(S)
    /\ Range(q) = S
    /\ \A i, j \in DOMAIN q : i < j => StrLess(q[i], q[j])

\* text is the strings of S, deduplicated, in lexicographic order, joined by
\* a comma and a space.
IsSortedList(text, S) ==
    \E q \in [1..Cardinality(S) -> S] : ListsInOrder(q, S) /\ text = Join(", ", q)

\* C14: for every transaction with a hit, triggered_controls is exactly the
\* control ids of its hits and triggered_actions exactly the actions of its
\* hits, each deduplicated, in lexicographic order, comma-separated; a
\* transaction hit by a REVIEW and a BLOCK control (and nothing else) has
\* triggered_actions "BLOCK, REVIEW" and final_action BLOCK.
C14_TriggeredListsSortedAndDeduplicated ==
    Done =>
        \A k \in DOMAIN decisions :
            LET t == decisions[k].tx_id
            IN  HitsOn(t) # {} =>
                  /\ IsSortedList(decisions[k].triggered_controls,
                                  {hits_df[i].control_id : i \in HitsOn(t)})
                  /\ IsSortedList(decisions[k].triggered_actions, ActionsOn(t))
                  /\ ActionsOn(t) = {"REVIEW", "BLOCK"} =>
                        /\ decisions[k].triggered_actions = "BLOCK, REVIEW"
                        /\ decisions[k].final_action = "BLOCK"

\* C14's case: the REVIEW control comes first in the list and the BLOCK
\* control second, and both hit the transaction.
C14_Witness ==
    /\ Done
    /\ \E k \in DOMAIN decisions :
          /\ Len(hits_df) = 2
          /\ hits_df[1].tx_id = decisions[k].tx_id /\ hits_df[1].action = "REVIEW"
          /\ hits_df[2].tx_id = decisions[k].tx_id /\ hits_df[2].action = "BLOCK"
          /\ hits_df[1].control_id # hits_df[2].control_id
          /\ decisions[k].triggered_actions = "BLOCK, REVIEW"
          /\ decisions[k].final_action = "BLOCK"

\* The control matches the batch's row r: r is of the control's rail and
\* satisfies the control's conditions.
Matches(control, r) ==
    /\ PyEq(r["rail"], Str(control.rail))
    /\ build_mask_for_conditions([columns |-> tx.columns, rows |-> <<r>>], control.conditions)[1]

\* The hit of the control on the row.
HitOf(control, r) ==
    [tx_id |-> r["tx_id"].s, rail |-> r["rail"].s, control_id |-> control.control_id,
     severity |-> control.severity, action |-> control.action,
     description |-> control.description]

\* C16: the hit list holds exactly one hit per pair of a control of the
\* list (by position) and a record of its rail that it matches, carrying the
\* control's id, severity, action and description and the record's id and
\* rail; hits are not deduplicated, so a transaction matched by k controls
\* has k hits; every hit is of a transaction of the batch and a control of
\* the list.
C16_OneHitPerMatchingPair ==
    Done =>
        /\ \A h \in DOMAIN hits_df :
              \E j \in DOMAIN controls, r \in Range(tx.rows) :
                  Matches(controls[j], r) /\ hits_df[h] = HitOf(controls[j], r)
        /\ \A r \in Range(tx.rows), c \in Range(controls) :
              Cardinality({h \in DOMAIN hits_df : hits_df[h] = HitOf(c, r)})
                = Cardinality({j \in DOMAIN controls :
                                 Matches(controls[j], r) /\ HitOf(controls[j], r) = HitOf(c, r)})
        /\ \A r \in Range(tx.rows) :
              Cardinality(HitsOn(r["tx_id"].s))
                = Cardinality({j \in DOMAIN controls : Matches(controls[j], r)})

\* C16's case: the same control twice in the list, so two equal hits on one
\* transaction, beside a transaction it does not match.
C16_Witness ==
    /\ Done
    /\ Len(controls) = 2 /\ controls[1] = controls[2]
    /\ \E a, b \in TxIds :
          /\ Cardinality(HitsOn(a)) = 2
          /\ \A i, j \in HitsOn(a) : hits_df[i] = hits_df[j]
          /\ HitsOn(b) = {}

\* The number of rows of the table equal to row h.
Count(table, h) == Cardinality({i \in DOMAIN table : table[i] = h})

\* C17: running the engine on a reordering of the control list changes
\* neither the multiset of hits, nor any transaction's final_action,
\* triggered_controls or triggered_actions, nor any control's hits, hit_rate
\* or precision_proxy: only the order of the hit rows may differ.
C17_ControlOrderDoesNotMatter ==
    pc = "done_permuted" =>
        /\ \A h \in Range(hits_df) \cup Range(prev.hits) :
              Count(hits_df, h) = Count(prev.hits, h)
        /\ decisions = prev.decisions
        /\ Range(metrics_df) = Range(prev.metrics)

----------------------------------------------------------------------------
(* Properties of the condition matcher (specification SpecMask) *)

\* C6: a condition on a field the frame lacks matches no record: a mapping
\* that holds such a condition selects no row, whatever its kind and its
\* expected value.
C6_AbsentFieldNeverMatches ==
    pc = "masked" =>
        ((\E k \in DOMAIN conditions : condition_field(conditions[k][1]) \notin tx.columns)
            => \A i \in DOMAIN mask : ~mask[i])

\* The condition holds at the row as the claim has it: the cell it reads is
\* not null and passes the condition's test.
HoldsAt(df, row, key, expected) ==
    /\ ~IsNull(safe_series(df, row, condition_field(key)))
    /\ condition_mask(df, row, key, expected)

\* C15: a record is matched if and only if every condition of the mapping
\* holds for it: one failing condition, or one condition on a null value,
\* prevents the match, and the empty mapping matches every record.  Stated
\* for mappings whose fields are all columns of the frame.
C15_MatchIffEveryConditionHolds ==
    (pc = "masked" /\ \A k \in DOMAIN conditions : condition_field(conditions[k][1]) \in tx.columns) =>
        \A i \in DOMAIN tx.rows :
            mask[i] <=> \A k \in DOMAIN conditions :
                            HoldsAt(tx, tx.rows[i], conditions[k][1], conditions[k][2])

\* The suffix that ends the key, as the claim classifies keys: `_in`, a
\* `_days` form, or a plain comparison ("" for an exact-match key).
TrailingSuffix(key) ==
    CASE condition_kind(key) = "in" -> "_in"
      [] condition_kind(key) = "days" -> day_suffix_ops[DaySuffixIndex(key)][1]
      [] condition_kind(key) = "compare" -> comparison_ops[ComparisonIndex(key)]
      [] OTHER -> ""

\* The field the claim has the key test: the key without its trailing
\* suffix, alias-normalized for the comparisons.
ClaimedField(key) ==
    LET field == StripSuffix(key, TrailingSuffix(key))
    IN  IF condition_kind(key) = "in" THEN field ELSE normalize_field(field)

\* The test the claim has the key make on the cell: membership, or a strict
\* (`_gt`, `_lt`) or inclusive (`_gte`, `_lte`) comparison of its number.
ClaimedTest(key, c, expected) ==
    LET suffix == TrailingSuffix(key)
        value  == to_numeric(c)
    IN  CASE suffix = "_in" -> isin(c, expected)
          [] suffix \in {"_gt", "_gt_days"}   -> value.t = "num" /\ value.n >  expected.n
          [] suffix \in {"_gte", "_gte_days"} -> value.t = "num" /\ value.n >= expected.n
          [] suffix \in {"_lt", "_lt_days"}   -> value.t = "num" /\ value.n <  expected.n
          [] suffix \in {"_lte", "_lte_days"} -> value.t = "num" /\ value.n <= expected.n

\* C18: a key is classified by its trailing suffix only, and the field it
\* tests is the key with exactly that trailing suffix removed (then
\* alias-normalized), also when the field name holds the text of the suffix
\* elsewhere: x_in_y_in tests membership of field x_in_y, a_gt_b_gt compares
\* field a_gt_b; _gt and _lt are strict, _gte and _lte inclusive.
C18_FieldIsKeyWithoutTrailingSuffix ==
    (pc = "masked" /\ Len(conditions) = 1 /\ condition_kind(conditions[1][1]) # "exact") =>
        \A i \in DOMAIN tx.rows :
            mask[i] <=> ClaimedTest(conditions[1][1],
                                    safe_series(tx, tx.rows[i], ClaimedField(conditions[1][1])),
                                    conditions[1][2])

----------------------------------------------------------------------------
(* run(): load, evaluate, write *)

\* The specification SpecRun follows one call of run(), and one run of
\* main() of generate_synthetic_data.py beside it.  tx_file holds the bytes
\* of data/combined_transactions.csv, rd what pd.read_csv has read of them,
\* tx the frame it returned; controls holds what controls/controls.yaml
\* contains; fs says whether data is a regular file, which of the two inputs exist,
\* which output paths the process may not write (read_only) or are
\* directories, and how standard output encodes text.

decisions_path == "data/control_decisions.csv"
hits_path == "data/control_hits.csv"
metrics_path == "data/control_metrics.csv"
OutputPaths == {decisions_path, hits_path, metrics_path}

\* The message of the FileExistsError os.makedirs("data", exist_ok=True)
\* raises when data is a regular file.
file_exists_error == "[Errno 17] File exists: 'data'"

\* The message of the FileNotFoundError run() raises.
missing_tx_error ==
    "Missing data/combined_transactions.csv. Run: python src/generate_synthetic_data.py"

\* The message of the FileNotFoundError open() raises in load_controls.
missing_controls_error == "[Errno 2] No such file or directory: 'controls/controls.yaml'"

\* The message of the error to_csv raises on a path it cannot open: an
\* IsADirectoryError for a directory, a PermissionError for a file the
\* process may not write.
write_error(path) ==
    IF path \in fs.directories THEN "[Errno 21] Is a directory: '" \o path \o "'"
    ELSE "[Errno 13] Permission denied: '" \o path \o "'"

\* The message of the UnicodeEncodeError print raises on the check mark that
\* starts the summary, on a standard output encoded in ASCII.
encode_error ==
    "'ascii' codec can't encode character '\\u2705' in position 0: ordinal not in range(128)"

\* The message with the first column of the list, missing or not.
missing_column_error_first(df) ==
    "Missing required column '" \o required_cols_order[1] \o "' in combined_transactions.csv"

\* The message of the ValueError of evaluate_controls: the first required
\* column, in the order of the check, that the batch lacks.
missing_column_error(df) ==
    "Missing required column '" \o missing_required(df)[1] \o "' in combined_transactions.csv"

RunRows == Generated({AchInstant, CardNewDevice})

RunControls ==
    { Control("ACH_ALL", "ACH", "LOW", "ALLOW", "", <<>>),
      Control("CARD_NEW_DEVICE", "CARD", "MEDIUM", "REVIEW", "new device",
              << <<"is_new_device", Bool(TRUE)>> >>) }

RunFiles ==
    { AllFilesFine,
      [AllFilesFine EXCEPT !.data_is_file = TRUE, !.tx_exists = FALSE],
      [AllFilesFine EXCEPT !.tx_exists = FALSE],
      [AllFilesFine EXCEPT !.controls_exists = FALSE],
      [AllFilesFine EXCEPT !.read_only = {decisions_path}],
      [AllFilesFine EXCEPT !.directories = {hits_path}],
      [AllFilesFine EXCEPT !.read_only = {metrics_path}],
      [AllFilesFine EXCEPT !.stdout_encoding = "ascii"] }

\* The batches the transactions file holds when run() starts: ACH rows
\* written by an earlier main(), or card rows of a producer that leaves the
\* amount out.
RunBatches ==
    LET full == required_cols \cup optional_cols
    IN  Batches(full, Generated({AchInstant}))
            \cup Batches(full \ {"amount"}, Generated({CardNewDevice}))

InitRun ==
    /\ fs \in RunFiles
    /\ tx_file \in IF fs.tx_exists THEN {to_csv(b) : b \in RunBatches} ELSE {""}
    /\ controls \in SeqsUpTo(RunControls, MaxControls)
    /\ tx = NoFrame
    /\ rd = ""
    /\ gen = GeneratorIdle
    /\ conditions = <<>>
    /\ mask = <<>>
    /\ pc = "run"
    /\ hits_df = <<>>
    /\ decisions = <<>>
    /\ metrics_df = <<>>
    /\ prev = NoTables
    /\ table_columns = NoTables
    /\ written = {}
    /\ error = ""

\* The program ends with an exception: nothing else changes.
Raise(message) ==
    /\ pc' = "failed"
    /\ error' = message
    /\ UNCHANGED <<tx, controls, conditions, mask, hits_df, decisions, metrics_df, prev,
                   table_columns, fs, written, gen, tx_file, rd>>

\* The program moves on to the next statement.
Goto(label) ==
    /\ pc' = label
    /\ UNCHANGED <<tx, controls, conditions, mask, hits_df, decisions, metrics_df, prev,
                   table_columns, fs, written, error, gen, tx_file, rd>>

\* ensure_data_dir(): os.makedirs("data", exist_ok=True).
EnsureDataDir ==
    /\ pc = "run"
    /\ IF fs.data_is_file THEN Raise(file_exists_error) ELSE Goto("dir_ok")

\* The test that the transactions file exists.
CheckTxPath ==
    /\ pc = "dir_ok"
    /\ IF fs.tx_exists THEN Goto("read") ELSE Raise(missing_tx_error)

\* pd.read_csv(tx_path), one read of its tokenizer at a time: a read takes
\* the bytes the file holds after those already read, at most ReadChunk of
\* them; a read of no bytes is the end of the file, and then what has been
\* read is parsed.  The file is not locked: between two reads main() may
\* truncate it or write more of it.
ReadCsv ==
    /\ pc = "read"
    /\ LET chunk  == SubSeq(tx_file, Len(rd) + 1, Min(Len(rd) + ReadChunk, Len(tx_file)))
           parsed == parse_csv(rd)
       IN  IF chunk # ""
           THEN /\ rd' = rd \o chunk
                /\ UNCHANGED <<tx, controls, conditions, mask, pc, hits_df, decisions,
                               metrics_df, prev, table_columns, fs, written, error, gen,
                               tx_file>>
           ELSE IF parsed.error # "" THEN Raise(parsed.error)
           ELSE /\ tx' = parsed.frame
                /\ pc' = "load"
                /\ UNCHANGED <<controls, conditions, mask, hits_df, decisions, metrics_df,
                               prev, table_columns, fs, written, error, gen, tx_file, rd>>

\* load_controls("controls/controls.yaml")
LoadControls ==
    /\ pc = "load"
    /\ IF fs.controls_exists THEN Goto("ready") ELSE Raise(missing_controls_error)

\* main() of generate_synthetic_data.py, run by the user in the same working
\* directory while run() has not finished reading the transactions file.
\* (Where data is a regular file its own ensure_data_dir() fails and it
\* writes nothing; once run() has read the file it does not look at it
\* again.)

\* main() up to the open(path, "w") of combined.to_csv: the batch is
\* generated and labelled, the file is created or truncated.
GenerateOpen ==
    /\ gen.pc = "idle"
    /\ pc \in {"run", "dir_ok", "read"}
    /\ ~fs.data_is_file
    /\ \E b \in Batches(required_cols \cup optional_cols, RunRows) :
           gen' = [pc |-> "writing", text |-> to_csv(b)]
    /\ tx_file' = ""
    /\ fs' = [fs EXCEPT !.tx_exists = TRUE]
    /\ UNCHANGED <<tx, controls, conditions, mask, pc, hits_df, decisions, metrics_df, prev,
                   table_columns, written, error, rd>>

\* The text of combined.to_csv reaches the file a buffer at a time: each
\* write adds the next WriteChunk bytes, the last one what is left.
GenerateWrite ==
    /\ gen.pc = "writing"
    /\ pc \in {"run", "dir_ok", "read"}
    /\ LET n == Min(Len(tx_file) + WriteChunk, Len(gen.text))
       IN  /\ tx_file' = SubSeq(gen.text, 1, n)
           /\ gen' = IF n = Len(gen.text) THEN [pc |-> "done", text |-> ""] ELSE gen
    /\ UNCHANGED <<tx, controls, conditions, mask, pc, hits_df, decisions, metrics_df, prev,
                   table_columns, fs, written, error, rd>>

\* evaluate_controls(tx, controls) on a batch that lacks a required column.
EvaluateControlsRaises ==
    /\ pc = "ready"
    /\ missing_required(tx) # <<>>
    /\ Raise(missing_column_error(tx))

\* evaluate_controls(tx, controls) on a batch of every required column that
\* pandas raises on: a frame read while main() rewrote the file, with cells
\* cut or shifted.  Nothing is returned.
EvaluateControlsFails ==
    /\ pc = "ready"
    /\ missing_required(tx) = <<>>
    /\ evaluate_error(tx, hit_rows(tx, controls)) # ""
    /\ Raise(evaluate_error(tx, hit_rows(tx, controls)))

\* df.to_csv(path, index=False)
ToCsv(path, from, to) ==
    /\ pc = from
    /\ IF path \in fs.directories \cup fs.read_only
       THEN Raise(write_error(path))
       ELSE /\ written' = written \cup {path}
            /\ pc' = to
            /\ UNCHANGED <<tx, controls, conditions, mask, hits_df, decisions, metrics_df,
                           prev, table_columns, fs, error, gen, tx_file, rd>>

WriteDecisions == ToCsv(decisions_path, "done", "wrote_decisions")

WriteHits == ToCsv(hits_path, "wrote_decisions", "wrote_hits")

WriteMetrics == ToCsv(metrics_path, "wrote_hits", "wrote_metrics")

\* The prints that end run(): the first starts with a check mark (U+2705).
PrintSummary ==
    /\ pc = "wrote_metrics"
    /\ IF fs.stdout_encoding = "utf-8" THEN Goto("finished") ELSE Raise(encode_error)

NextRun ==
    \/ EnsureDataDir
    \/ CheckTxPath
    \/ ReadCsv
    \/ LoadControls
    \/ GenerateOpen
    \/ GenerateWrite
    \/ EvaluateControlsRaises
    \/ EvaluateControlsFails
    \/ RunEvaluate
    \/ WriteDecisions
    \/ WriteHits
    \/ WriteMetrics
    \/ PrintSummary

SpecRun == InitRun /\ [][NextRun]_vars

----------------------------------------------------------------------------
(* run() from the call of evaluate_controls on *)

\* The specification SpecEval starts where run() has read the batch and
\* loaded the controls: the batch holds every column, or lacks one or two of
\* the required ones.
EvalColumnSets ==
    LET full == required_cols \cup optional_cols
    IN  {full} \cup {full \ {c} : c \in required_cols}
            \cup {full \ {"tx_id", "timestamp"}, full \ {"rail", "user_id"}}

EvalFiles ==
    { AllFilesFine,
      [AllFilesFine EXCEPT !.directories = {hits_path}],
      [AllFilesFine EXCEPT !.stdout_encoding = "ascii"] }

InitEval ==
    /\ tx \in UNION {Batches(cols, RunRows) : cols \in EvalColumnSets}
    /\ controls \in SeqsUpTo(RunControls, MaxControls)
    /\ fs \in EvalFiles
    /\ conditions = <<>>
    /\ mask = <<>>
    /\ pc = "ready"
    /\ hits_df = <<>>
    /\ decisions = <<>>
    /\ metrics_df = <<>>
    /\ prev = NoTables
    /\ table_columns = NoTables
    /\ written = {}
    /\ error = ""
    /\ gen = GeneratorIdle
    /\ tx_file = ""
    /\ rd = ""

NextEval ==
    \/ EvaluateControlsRaises
    \/ RunEvaluate
    \/ WriteDecisions
    \/ WriteHits
    \/ WriteMetrics
    \/ PrintSummary

SpecEval == InitEval /\ [][NextEval]_vars

----------------------------------------------------------------------------
(* Properties of evaluate_controls in run() (specification SpecEval) *)

\* C11: whatever the controls, a batch that lacks a required column makes
\* evaluate_controls fail with an error that names a column the batch lacks,
\* before any control is evaluated: no table is returned (or written), and
\* the run never gets past the call.
C11_MissingColumnFailsFirst ==
    (missing_required(tx) # <<>>) =>
        /\ pc \in {"ready", "failed"}
        /\ hits_df = <<>> /\ decisions = <<>> /\ metrics_df = <<>>
        /\ table_columns = NoTables
        /\ written = {}
        /\ pc = "failed" =>
               \E c \in required_cols \ tx.columns :
                   error = "Missing required column '" \o c \o "' in combined_transactions.csv"

\* The check failed on a batch of two rails that lacks the rail column and
\* another, although the list holds both controls.
C11_Witness ==
    /\ pc = "failed"
    /\ error = "Missing required column 'rail' in combined_transactions.csv"
    /\ tx.columns \cap {"rail", "user_id"} = {}
    /\ Len(controls) = 2 /\ controls[1] # controls[2]
    /\ \E i, j \in DOMAIN tx.rows :
           tx.rows[i].funding_speed = Str("instant") /\ tx.rows[j].is_new_device = Bool(TRUE)

----------------------------------------------------------------------------
(* Properties of run() (specification SpecRun) *)

Terminated == pc \in {"finished", "failed"}

\* C12: run() is all-or-nothing: it ends either having written all three
\* tables, or having written none of them and raised one fatal error.
C12_AllOrNothing ==
    Terminated =>
        \/ written = OutputPaths
        \/ pc = "failed" /\ written = {} /\ error # ""

====
